---- MODULE Spec2Model ----
(***************************************************************************)
(* Model of the rn-expo-ts-app render tree: the Root view (App.tsx) and    *)
(* the Greeting view (src/components/Greeting.tsx), together with the one  *)
(* external resource the code reads, the host system clock.                *)
(*                                                                         *)
(* A render pass of Greeting is modelled statement by statement (the clock *)
(* read of line 10, the subtraction of line 11, the returned JSX of lines  *)
(* 12-20) so that a clock advance may fall between any two statements.     *)
(***************************************************************************)
EXTENDS Integers, Sequences, FiniteSets, TLC

VARIABLES
    clock,        \* the year the host system clock holds (new Date().getFullYear())
    pc,           \* position of the render pass: "idle", "call", "read", "aged"
    caller,       \* who invoked Greeting in the running pass: "none", "App", "host"
    tree,         \* the element tree returned by the latest call of App
    props,        \* Greeting's parameters { name, birthYear } in the running pass
    currentYear,  \* Greeting's local const currentYear
    age,          \* Greeting's local const age
    readAt,       \* observation: the clock year at the moment line 10 ran
    clockReads,   \* observation: how many times the running pass read the clock
    last,         \* observation: the latest completed Greeting render
    snap          \* observation: some earlier completed Greeting render

vars == <<clock, pc, caller, tree, props, currentYear, age, readAt, clockReads, last, snap>>

(***************************************************************************)
(* Bounds and input sets.                                                  *)
(***************************************************************************)
MaxYear == 2026
InitYears == {2024}
Names == {"", "Jane", "Sam"}
BirthYears == {1995, 2000, 2025, 2030}

YearRange == (0 .. MaxYear)
ClockYears == {y \in YearRange : \E y0 \in InitYears : y >= y0}
AgeRange == {y - b : y \in ClockYears, b \in BirthYears}

(***************************************************************************)
(* Number to text, as React does for a numeric child ('' + n).             *)
(***************************************************************************)
DigitChar(d) ==
    CASE d = 0 -> "0" [] d = 1 -> "1" [] d = 2 -> "2" [] d = 3 -> "3"
      [] d = 4 -> "4" [] d = 5 -> "5" [] d = 6 -> "6" [] d = 7 -> "7"
      [] d = 8 -> "8" [] d = 9 -> "9"

RECURSIVE Digits(_)
Digits(n) == IF n < 10 THEN DigitChar(n) ELSE Digits(n \div 10) \o DigitChar(n % 10)

NumberToString(n) == IF n < 0 THEN "-" \o Digits(-n) ELSE Digits(n)

(***************************************************************************)
(* Elements.  An element is [type, style, props, children]; the children   *)
(* of a Text are its text fragments, already converted to text.            *)
(***************************************************************************)
NoProps == [name |-> "", birthYear |-> 0]
NoElement == [type |-> "none", style |-> "", props |-> NoProps, children |-> <<>>]

Text(style, fragments) ==
    [type |-> "Text", style |-> style, props |-> NoProps, children |-> fragments]

RECURSIVE Concat(_)
Concat(fragments) ==
    IF fragments = <<>> THEN "" ELSE Head(fragments) \o Concat(Tail(fragments))

\* The text a Text element displays: its fragments joined.
TextOf(t) == Concat(t.children)

\* The displayed lines of a rendered Greeting, top to bottom.
Lines(el) == [i \in 1 .. Len(el.children) |-> TextOf(el.children[i])]

(***************************************************************************)
(* Greeting.tsx                                                            *)
(***************************************************************************)
\* Variant: the year is computed once and reused by the next pass.
ReadYearStale == IF last.done THEN last.year ELSE clock

\* line 10: const currentYear = new Date().getFullYear();
ReadYear == clock

\* Variants of the subtraction: operands swapped; negative ages clamped;
\* the clock read a second time.
AgeSwapped(cy, birthYear) == birthYear - cy
AgeClamped(cy, birthYear) == IF birthYear > cy THEN 0 ELSE cy - birthYear
AgeReread(cy, birthYear) == clock - birthYear

\* line 11: const age = currentYear - birthYear;
Age(cy, birthYear) == cy - birthYear

\* Variant: a blank name replaced by a default.
HelloLineDefaulted(name) ==
    Text("textStyle", <<"Hello, ", IF name = "" THEN "Guest" ELSE name>>)

\* line 14: <Text style={styles.textStyle}>Hello, {name}</Text>
HelloLine(name) == Text("textStyle", <<"Hello, ", name>>)

\* line 15: <Text style={styles.textStyle}>Nice to meet you!</Text>
NiceLine == Text("textStyle", <<"Nice to meet you!">>)

\* Variant: the year in the sentence read from the clock again.
AgeLineLive(cy, a) ==
    Text("textStyle,ageTextStyle",
         <<"Now ", NumberToString(clock), " and you become ", NumberToString(a), " years old.">>)

\* lines 16-18: Now {currentYear} and you become {age} years old.
AgeLine(cy, a) ==
    Text("textStyle,ageTextStyle",
         <<"Now ", NumberToString(cy), " and you become ", NumberToString(a), " years old.">>)

\* Variant: the pleasantry placed above the greeting.
GreetingViewReordered(name, cy, a) ==
    [type |-> "View", style |-> "wrapper", props |-> NoProps,
     children |-> <<NiceLine, HelloLine(name), AgeLine(cy, a)>>]

\* lines 12-20: the returned wrapper View
GreetingView(name, cy, a) ==
    [type |-> "View", style |-> "wrapper", props |-> NoProps,
     children |-> <<HelloLine(name), NiceLine, AgeLine(cy, a)>>]

(***************************************************************************)
(* App.tsx                                                                 *)
(***************************************************************************)
\* Variant: the digits of the birth year transposed.
AppGreetingPropsTransposed == [name |-> "Jane", birthYear |-> 1959]

\* line 9: <Greeting name="Jane" birthYear={1995} />
AppGreetingProps == [name |-> "Jane", birthYear |-> 1995]

GreetingElement(p) ==
    [type |-> "Greeting", style |-> "", props |-> p, children |-> <<>>]

\* line 10: <StatusBar style="light" />
StatusBarElement ==
    [type |-> "StatusBar", style |-> "light", props |-> NoProps, children |-> <<>>]

\* Variant: the status bar left out.
AppChildrenNoStatusBar == <<GreetingElement(AppGreetingProps)>>

\* lines 8-11: the children of the container View
AppChildren == <<GreetingElement(AppGreetingProps), StatusBarElement>>

\* lines 7-12: the returned container View
AppView ==
    [type |-> "View", style |-> "container", props |-> NoProps, children |-> AppChildren]

(***************************************************************************)
(* Observations of completed renders.                                      *)
(***************************************************************************)
\* year is the clock year when the pass read the clock, retYear the clock
\* year when the pass returned its view.
NoRender ==
    [done |-> FALSE, by |-> "none", name |-> "", birthYear |-> 0, year |-> 0,
     retYear |-> 0, out |-> NoElement]

Rendered(who, p, y, ry, el) ==
    [done |-> TRUE, by |-> who, name |-> p.name, birthYear |-> p.birthYear, year |-> y,
     retYear |-> ry, out |-> el]

(***************************************************************************)
(* State machine.                                                          *)
(***************************************************************************)
Init ==
    /\ clock \in InitYears
    /\ pc = "idle"
    /\ caller = "none"
    /\ tree = NoElement
    /\ props = NoProps
    /\ currentYear = 0
    /\ age = 0
    /\ readAt = 0
    /\ clockReads = 0
    /\ last = NoRender
    /\ snap = NoRender

\* The host clock moves into the next year at any moment.
ClockAdvance ==
    /\ clock < MaxYear
    /\ clock' = clock + 1
    /\ UNCHANGED <<pc, caller, tree, props, currentYear, age, readAt, clockReads, last, snap>>

\* App(): mount or re-render of the Root view; the framework then calls
\* Greeting with the props of the Greeting element.
AppRender ==
    /\ pc = "idle"
    /\ tree' = AppView
    /\ props' = AppView.children[1].props
    /\ caller' = "App"
    /\ pc' = "call"
    /\ clockReads' = 0
    /\ UNCHANGED <<clock, currentYear, age, readAt, last, snap>>

\* Greeting rendered on its own by a host other than App, with any props.
HostRender ==
    /\ pc = "idle"
    /\ \E n \in Names, b \in BirthYears : props' = [name |-> n, birthYear |-> b]
    /\ caller' = "host"
    /\ pc' = "call"
    /\ clockReads' = 0
    /\ UNCHANGED <<clock, tree, currentYear, age, readAt, last, snap>>

\* Greeting.tsx line 10
GreetingReadClock ==
    /\ pc = "call"
    /\ currentYear' = ReadYear
    /\ readAt' = clock
    /\ clockReads' = clockReads + 1
    /\ pc' = "read"
    /\ UNCHANGED <<clock, caller, tree, props, age, last, snap>>

\* Variant: the parameter birthYear reassigned to hold the age.
GreetingComputeAgeReassigns ==
    /\ pc = "read"
    /\ age' = Age(currentYear, props.birthYear)
    /\ props' = [props EXCEPT !.birthYear = age']
    /\ pc' = "aged"
    /\ UNCHANGED <<clock, caller, tree, currentYear, readAt, clockReads, last, snap>>

\* Greeting.tsx line 11
GreetingComputeAge ==
    /\ pc = "read"
    /\ age' = Age(currentYear, props.birthYear)
    /\ pc' = "aged"
    /\ UNCHANGED <<clock, caller, tree, props, currentYear, readAt, clockReads, last, snap>>

\* Greeting.tsx lines 12-20; the locals and the props are discarded after
\* the pass.  The observer keeps the render as `last` and either keeps or
\* replaces the earlier render it remembers.
GreetingReturn ==
    /\ pc = "aged"
    /\ last' = Rendered(caller, props, readAt, clock, GreetingView(props.name, currentYear, age))
    /\ \/ snap' = snap
       \/ snap' = last'
    /\ pc' = "idle"
    /\ caller' = "none"
    /\ props' = NoProps
    /\ currentYear' = 0
    /\ age' = 0
    /\ UNCHANGED <<clock, tree, readAt, clockReads>>

Next ==
    \/ ClockAdvance
    \/ AppRender
    \/ HostRender
    \/ GreetingReadClock
    \/ GreetingComputeAge
    \/ GreetingReturn

Spec == Init /\ [][Next]_vars

TypeOK ==
    /\ clock \in ClockYears
    /\ pc \in {"idle", "call", "read", "aged"}
    /\ caller \in {"none", "App", "host"}
    /\ clockReads \in 0 .. 1

(***************************************************************************)
(* Reading a rendered Greeting.                                            *)
(***************************************************************************)
\* Fragment j of line i of a rendered view ("" when there is none).
Fragment(el, i, j) ==
    IF i <= Len(el.children)
    THEN IF j <= Len(el.children[i].children) THEN el.children[i].children[j] ELSE ""
    ELSE ""

ShownYear(el) == Fragment(el, 3, 2)
ShownAge(el) == Fragment(el, 3, 4)

\* The text s is the decimal rendering of the number n.
ShowsNumber(s, n) == NumberToString(n) = s

SameInput(r1, r2) == r1.name = r2.name /\ r1.birthYear = r2.birthYear

(***************************************************************************)
(* Properties.                                                             *)
(***************************************************************************)

\* C1: every completed render of Greeting shows an age equal to the year the
\* clock held when that render read it, minus birthYear; a pass that has
\* computed its age holds that same difference.
C1_AgeIsClockYearMinusBirthYear ==
    /\ last.done => ShowsNumber(ShownAge(last.out), last.year - last.birthYear)
    /\ pc = "aged" => age = readAt - props.birthYear

C1_Witness ==
    /\ last.done
    /\ last.name = "Sam" /\ last.birthYear = 2000 /\ last.year = 2025
    /\ ShownAge(last.out) = "25"

\* C2: two renders with the same name and birthYear whose clock reads gave the
\* same year display the same three lines, whatever was rendered in between.
C2_IdempotentWithinYear ==
    (snap.done /\ last.done /\ SameInput(snap, last) /\ snap.year = last.year)
        => Lines(snap.out) = Lines(last.out)

C2_Witness ==
    /\ snap.done /\ last.done
    /\ SameInput(snap, last) /\ snap.year = last.year
    /\ snap.by = "App" /\ last.by = "host"
    /\ snap.retYear < last.retYear
    /\ Len(Lines(last.out)) = 3

\* C3: the Root view always hands Greeting name "Jane" and birthYear 1995: in
\* the tree it returns, in the pass it starts, and in every render completed
\* on its behalf, before and after any clock advance.
C3_RootPassesFixedInput ==
    /\ tree.type = "View" =>
          /\ \E i \in 1 .. Len(tree.children) : tree.children[i].type = "Greeting"
          /\ \A i \in 1 .. Len(tree.children) :
                tree.children[i].type = "Greeting" =>
                   /\ tree.children[i].props.name = "Jane"
                   /\ tree.children[i].props.birthYear = 1995
    /\ caller = "App" => props.name = "Jane" /\ props.birthYear = 1995
    /\ (last.done /\ last.by = "App") => last.name = "Jane" /\ last.birthYear = 1995

C3_Witness ==
    /\ snap.done /\ snap.by = "App" /\ snap.year = 2024
    /\ last.done /\ last.by = "App" /\ last.year = 2026
    /\ tree.type = "View"

\* C4: a completed render displays exactly three lines, in order: "Hello, "
\* and the name; "Nice to meet you!"; "Now <year> and you become <age> years
\* old."  Jane, 1995, in 2024 gives the three lines of scenario 1.
C4_ThreeLinesInOrder ==
    /\ last.done =>
          Lines(last.out) =
             << "Hello, " \o last.name,
                "Nice to meet you!",
                "Now " \o NumberToString(last.year) \o " and you become "
                   \o NumberToString(last.year - last.birthYear) \o " years old." >>
    /\ (last.done /\ last.name = "Jane" /\ last.birthYear = 1995 /\ last.year = 2024) =>
          Lines(last.out) =
             <<"Hello, Jane", "Nice to meet you!", "Now 2024 and you become 29 years old.">>

C4_Witness ==
    /\ last.done /\ last.name = "Jane" /\ last.birthYear = 1995 /\ last.year = 2024
    /\ Len(last.out.children) = 3
    /\ TextOf(last.out.children[3]) = "Now 2024 and you become 29 years old."

\* C5: a birthYear not below the clock year is rendered like any other: the
\* pass completes with its three lines, and shows 0 when birthYear is the
\* clock year and the negative difference when it is later (2030 in 2024: -6).
C5_FutureBirthYearUnguarded ==
    /\ (last.done /\ last.birthYear >= last.year) =>
          /\ Len(last.out.children) = 3
          /\ ShowsNumber(ShownAge(last.out), last.year - last.birthYear)
    /\ (last.done /\ last.birthYear = last.year) => ShownAge(last.out) = "0"
    /\ (last.done /\ last.birthYear = 2030 /\ last.year = 2024) => ShownAge(last.out) = "-6"
    /\ (pc = "aged" /\ props.birthYear > readAt) => age < 0

C5_Witness ==
    /\ snap.done /\ snap.name = "Sam" /\ snap.birthYear = 2030 /\ snap.year = 2024
    /\ ShownAge(snap.out) = "-6"
    /\ last.done /\ last.birthYear = 2025 /\ last.year = 2025
    /\ ShownAge(last.out) = "0"

\* C6: the first line is "Hello, " followed by the name exactly as given, the
\* empty name included, and renders that differ only in the name show the same
\* third line.
C6_NameVerbatim ==
    /\ last.done => TextOf(last.out.children[1]) = "Hello, " \o last.name
    /\ (last.done /\ last.name = "") => Lines(last.out)[1] = "Hello, "
    /\ (snap.done /\ last.done /\ snap.birthYear = last.birthYear /\ snap.year = last.year)
          => Lines(snap.out)[3] = Lines(last.out)[3]
    /\ (last.done /\ last.name = "" /\ last.birthYear = 2000 /\ last.year = 2024)
          => ShownAge(last.out) = "24"

C6_Witness ==
    /\ last.done /\ last.name = "" /\ last.birthYear = 2000 /\ last.year = 2024
    /\ Lines(last.out)[1] = "Hello, "
    /\ ShownAge(last.out) = "24"
    /\ snap.done /\ snap.name = "Sam" /\ snap.birthYear = 2000 /\ snap.year = 2024

\* C7: every render shows the year its own clock read gave, and of two renders
\* with the same birthYear the later shows an age larger by exactly the number
\* of years the clock advanced between their reads.
C7_RecomputedEveryRender ==
    /\ last.done => ShowsNumber(ShownYear(last.out), last.year)
    /\ pc \in {"read", "aged"} => currentYear = readAt
    /\ (snap.done /\ last.done /\ snap.birthYear = last.birthYear) =>
          /\ \E a \in AgeRange : ShowsNumber(ShownAge(snap.out), a)
          /\ \A a \in AgeRange :
                ShowsNumber(ShownAge(snap.out), a) =>
                   ShowsNumber(ShownAge(last.out), a + (last.year - snap.year))

C7_Witness ==
    /\ snap.done /\ last.done
    /\ snap.birthYear = 1995 /\ last.birthYear = 1995
    /\ snap.year = 2024 /\ last.year = 2026
    /\ ShownAge(snap.out) = "29" /\ ShownAge(last.out) = "31"
    /\ ShownYear(last.out) = "2026"

\* C8: a step of a render pass (the only steps that move pc) leaves the clock
\* as it was, leaves the props of the running pass as they were given, and
\* changes the Root tree only by App returning its view.
C8_RenderLeavesInputsAlone ==
    [][ (pc' # pc) =>
           /\ clock' = clock
           /\ (pc # "idle" /\ pc' # "idle") => props' = props
           /\ (pc # "idle") => tree' = tree
           /\ (pc = "aged" /\ pc' = "idle") =>
                 /\ last'.name = props.name
                 /\ last'.birthYear = props.birthYear ]_vars

C8_Witness ==
    /\ pc = "aged" /\ caller = "host"
    /\ props = [name |-> "Sam", birthYear |-> 2030]
    /\ last.done /\ last.by = "App"
    /\ clock = 2025 /\ readAt = 2025

\* C9 as stated: the container of the Root view has exactly one child.
C9_SingleChild ==
    tree.type = "View" => Len(tree.children) = 1

\* C9 amended: the container of the Root view has exactly two children, the
\* Greeting element followed by the StatusBar element; exactly one of them is
\* a Greeting.
C9_GreetingThenStatusBar ==
    tree.type = "View" =>
       /\ Len(tree.children) = 2
       /\ tree.children[1].type = "Greeting"
       /\ tree.children[2].type = "StatusBar"
       /\ Cardinality({i \in 1 .. Len(tree.children) : tree.children[i].type = "Greeting"}) = 1

C9_Witness ==
    /\ tree.type = "View" /\ tree.style = "container"
    /\ last.done /\ last.by = "App"
    /\ pc = "idle"

\* C10: a render pass reads the clock once, and the year and the age it shows
\* come from that one read: shown year minus shown age is birthYear, also when
\* the clock moved into the next year before the pass returned.
C10_YearAndAgeFromOneRead ==
    /\ pc \in {"read", "aged"} => clockReads = 1
    /\ pc = "aged" => currentYear - age = props.birthYear
    /\ last.done =>
          \E y \in ClockYears, a \in AgeRange :
             /\ ShowsNumber(ShownYear(last.out), y)
             /\ ShowsNumber(ShownAge(last.out), a)
             /\ y - a = last.birthYear

C10_Witness ==
    /\ last.done
    /\ last.year = 2024 /\ last.retYear = 2025
    /\ last.birthYear = 1995
    /\ ShownYear(last.out) = "2024" /\ ShownAge(last.out) = "29"
====
